---- MODULE Spec2Model ----
(***************************************************************************)
(* Station firmware of esp32-wifi-sniffer: the promiscuous receive         *)
(* callback (src/sniffer.rs), the bounded event channel and the MQTT       *)
(* publisher thread (src/mqtt.rs), started by main (src/main.rs).          *)
(* Server (src/bin/web-gui.rs): the MQTT subscriber task that keeps the    *)
(* device store, and the broadcaster task of a WebSocket connection.       *)
(***************************************************************************)
EXTENDS Integers, Sequences, FiniteSets, TLC

\* ------------------------------------------------------------------------
\* Program constants
\* ------------------------------------------------------------------------
SEND_RATE == 50

CHANNEL_CAPACITY == 32

MIN_HEADER_LEN == 24

STATION_ID == "station1"

\* ------------------------------------------------------------------------
\* Bounds of the model
\* ------------------------------------------------------------------------
\* Frames that pass the filter before the radio falls silent: enough for the
\* 33rd forwarding attempt (count = 1600), which meets a full channel.
MaxPackets == 1601

\* Failed MQTT enqueues.
MaxSkips == 1

\* Frames that pass the filter in the liveness specification.
MaxLivePackets == 101

\* Frames that pass the filter in the specification that starts shortly
\* before PACKET_COUNT wraps.
MaxWrapPackets == 120

\* Events the owner of tx sends in the specification where tx is dropped.
MaxSends == 5

\* Distinct events that go into the server's store: enough for one device
\* seen by three stations.
MaxEvents == 3

\* ------------------------------------------------------------------------
\* Frames handed to the callback by the radio driver
\* ------------------------------------------------------------------------
BroadcastMac == <<255, 255, 255, 255, 255, 255>>

MulticastMac == <<1, 0, 94, 0, 0, 251>>

OddHighMac == <<255, 255, 255, 255, 255, 254>>

UnicastMac == <<60, 113, 191, 16, 32, 48>>

Macs == {BroadcastMac, MulticastMac, OddHighMac, UnicastMac}

NullBuf == [null |-> TRUE]

Frames ==
  {NullBuf} \cup
  [null : {FALSE}, sig_len : {23, 24}, addr2 : Macs, rssi : {-60}, channel : {6}]

\* ------------------------------------------------------------------------
\* MacAddress
\* ------------------------------------------------------------------------
is_broadcast(mac) == mac = <<255, 255, 255, 255, 255, 255>>

is_multicast_wrong_bit(mac) == mac[1] >= 128

is_multicast(mac) == mac[1] % 2 # 0

\* AtomicU32: a 32-bit value kept as its two 16-bit halves, so that
\* fetch_add wraps at 2^32 as the hardware does.
HALF == 65536

u32(n) == [hi |-> n \div HALF, lo |-> n % HALF]

\* fetch_add(1): the value stored
u32_add1(x) ==
  IF x.lo + 1 < HALF THEN [hi |-> x.hi, lo |-> x.lo + 1]
  ELSE [hi |-> (x.hi + 1) % HALF, lo |-> 0]

\* x % m
u32_rem(x, m) == (((x.hi % m) * (HALF % m)) + x.lo) % m

\* the value as a number (below 2^31)
u32_int(x) == (x.hi * HALF) + x.lo

\* A count that never wraps, in the same two-halves form (hi unbounded):
\* the number of filtered frames since boot.
wide_add1(x) ==
  IF x.lo + 1 < HALF THEN [hi |-> x.hi, lo |-> x.lo + 1]
  ELSE [hi |-> x.hi + 1, lo |-> 0]

\* floor(x / m)
wide_div(x, m) == (x.hi * (HALF \div m)) + (((x.hi * (HALF % m)) + x.lo) \div m)

\* `x as i8` and `x as u8`
as_i8(x) == ((x + 128) % 256) - 128

as_u8(x) == x % 256

passes_filter_no_length_check(frame) ==
  /\ ~frame.null
  /\ ~is_broadcast(frame.addr2)
  /\ ~is_multicast(frame.addr2)

\* The callback's three early returns (null buffer, short frame, broadcast or
\* multicast source): TRUE when the frame gets past them.
passes_filter(frame) ==
  /\ ~frame.null
  /\ ~(frame.sig_len < MIN_HEADER_LEN)
  /\ ~(is_broadcast(frame.addr2) \/ is_multicast(frame.addr2))

\* `count % SEND_RATE == 0`
rate_limit(count) == u32_rem(count, SEND_RATE) = 0

\* DeviceEvent as the callback builds it: `mac: source_mac.0`.
DeviceEvent(frame, timestamp) ==
  [mac |-> frame.addr2,
   rssi |-> as_i8(frame.rssi),
   channel |-> as_u8(frame.channel),
   timestamp |-> timestamp]

\* ------------------------------------------------------------------------
\* std::sync::mpsc::sync_channel(CHANNEL_CAPACITY) and Mutex
\* ------------------------------------------------------------------------
\* The ways a call can return: a non-blocking call always has one.
try_send_unbounded(ch, rcv, ev) ==
  IF rcv # "alive" THEN {[result |-> "Disconnected", chan |-> ch]}
  ELSE {[result |-> "Ok", chan |-> Append(ch, ev)]}

try_send_lifo(ch, rcv, ev) ==
  IF rcv # "alive" THEN {[result |-> "Disconnected", chan |-> ch]}
  ELSE IF Len(ch) < CHANNEL_CAPACITY
       THEN {[result |-> "Ok", chan |-> <<ev>> \o ch]}
       ELSE {[result |-> "Full", chan |-> ch]}

try_send_evict_oldest(ch, rcv, ev) ==
  IF rcv # "alive" THEN {[result |-> "Disconnected", chan |-> ch]}
  ELSE IF Len(ch) < CHANNEL_CAPACITY
       THEN {[result |-> "Ok", chan |-> Append(ch, ev)]}
       ELSE {[result |-> "Full", chan |-> Append(Tail(ch), ev)]}

blocking_send(ch, rcv, ev) ==
  IF rcv # "alive" THEN {[result |-> "Disconnected", chan |-> ch]}
  ELSE IF Len(ch) < CHANNEL_CAPACITY
       THEN {[result |-> "Ok", chan |-> Append(ch, ev)]}
       ELSE {}

try_send(ch, rcv, ev) ==
  IF rcv # "alive" THEN {[result |-> "Disconnected", chan |-> ch]}
  ELSE IF Len(ch) < CHANNEL_CAPACITY
       THEN {[result |-> "Ok", chan |-> Append(ch, ev)]}
       ELSE {[result |-> "Full", chan |-> ch]}

try_lock(mutex) == IF mutex.locked THEN "WouldBlock" ELSE "Ok"

recv_timeout_timeout_ends(ch, senders) ==
  IF Len(ch) > 0 THEN [result |-> "Ok", event |-> Head(ch), chan |-> Tail(ch)]
  ELSE [result |-> "Disconnected", chan |-> ch]

\* Buffered events are still handed out after the last sender is gone;
\* Disconnected is reported only for an empty channel without senders.
recv_timeout(ch, senders) ==
  IF Len(ch) > 0 THEN [result |-> "Ok", event |-> Head(ch), chan |-> Tail(ch)]
  ELSE IF senders = 0 THEN [result |-> "Disconnected", chan |-> ch]
  ELSE [result |-> "Timeout", chan |-> ch]

\* ------------------------------------------------------------------------
\* MqttPublisher::publish_event
\* ------------------------------------------------------------------------
HexDigits ==
  <<"0", "1", "2", "3", "4", "5", "6", "7", "8", "9", "a", "b", "c", "d", "e", "f">>

\* `format!("{:02x}", byte)` over the bytes, as a sequence of characters
to_hex(bytes) ==
  [i \in 1..(2 * Len(bytes)) |->
     IF i % 2 = 1 THEN HexDigits[(bytes[(i + 1) \div 2] \div 16) + 1]
     ELSE HexDigits[(bytes[i \div 2] % 16) + 1]]

format_payload(event, station_id) ==
  [mac_hash |-> to_hex(event.mac),
   rssi |-> event.rssi,
   channel |-> event.channel,
   timestamp |-> event.timestamp,
   station |-> station_id]

\* mac_hex: the characters pushed onto the String one after the other
RECURSIVE push_str(_)
push_str(chars) ==
  IF Len(chars) = 0 THEN "" ELSE Head(chars) \o push_str(Tail(chars))

\* the text format! produces; integers are written in decimal by Display
payload_str(event, station_id) ==
  "{\"mac_hash\":\"" \o push_str(to_hex(event.mac))
    \o "\",\"rssi\":" \o ToString(event.rssi)
    \o ",\"channel\":" \o ToString(event.channel)
    \o ",\"timestamp\":" \o ToString(event.timestamp)
    \o ",\"station\":\"" \o station_id \o "\"}"

\* let mut payload = [0u8; 200]
PAYLOAD_BUF_LEN == 200

\* (variant for mutation: a buffer of 64 bytes, as before the MAC was hashed)
payload_slice_short_buffer(text) ==
  SubSeq(text, 1, IF Len(text) < 64 THEN Len(text) ELSE 64)

\* len = payload_str.len().min(payload.len()); &payload[..len]
payload_slice(text) ==
  SubSeq(text, 1, IF Len(text) < PAYLOAD_BUF_LEN THEN Len(text) ELSE PAYLOAD_BUF_LEN)

\* One call: the arguments of format! and the bytes handed to client.enqueue,
\* the number of enqueue calls made, SKIP_COUNT afterwards and the Result
\* returned to run.
publish_event_retry(event, station_id, enqueue_ok, skip) ==
  [payload |-> format_payload(event, station_id),
   bytes |-> payload_slice(payload_str(event, station_id)),
   enqueues |-> IF enqueue_ok THEN 1 ELSE 2,
   skip |-> IF enqueue_ok THEN skip ELSE u32_add1(skip),
   result |-> "Ok"]

publish_event_propagate(event, station_id, enqueue_ok, skip) ==
  [payload |-> format_payload(event, station_id),
   bytes |-> payload_slice(payload_str(event, station_id)),
   enqueues |-> 1,
   skip |-> IF enqueue_ok THEN skip ELSE u32_add1(skip),
   result |-> IF enqueue_ok THEN "Ok" ELSE "Err"]

publish_event(event, station_id, enqueue_ok, skip) ==
  [payload |-> format_payload(event, station_id),
   bytes |-> payload_slice(payload_str(event, station_id)),
   enqueues |-> 1,
   skip |-> IF enqueue_ok THEN skip ELSE u32_add1(skip),
   result |-> "Ok"]

\* ------------------------------------------------------------------------
\* The server (bin/web-gui.rs): configuration, messages, pure steps
\* ------------------------------------------------------------------------
\* Option<T>: None is the empty set, Some(x) the set {x}.
None == {}

Some(x) == {x}

\* HashMap::new()
EmptyMap == [k \in {} |-> None]

\* config.stations: the id and the position of each station.  The room of
\* three stations at two walls, and three stations along one wall.
StationConfig(id, x, y) == [id |-> id, x |-> x, y |-> y]

RoomStations ==
  {StationConfig("station1", 0, 0), StationConfig("station2", 10, 0),
   StationConfig("station3", 0, 10)}

LineStations ==
  {StationConfig("station1", 0, 0), StationConfig("station2", 5, 0),
   StationConfig("station3", 10, 0)}

Configs == {RoomStations, LineStations}

\* Two devices, and two station clocks 35 s apart (microseconds).
HashA == "a3f1"

HashB == "7c02"

EarlyTime == 5000000

LateTime == 40000000

\* A publish.payload: whether its bytes are UTF-8, and the JSON object in it.
Json(mac_hash, rssi, channel, timestamp, station) ==
  [utf8 |-> TRUE,
   json |-> [mac_hash |-> mac_hash, rssi |-> rssi, channel |-> channel,
             timestamp |-> timestamp, station |-> station]]

InRangePayloads ==
  {Json(HashA, -60, 6, t, s) :
     t \in {EarlyTime, LateTime}, s \in {"station1", "station2", "station3"}}
  \cup {Json(HashB, -60, 6, LateTime, "station1")}

\* rssi above 0 dBm, channel 0: values an i8 and a u8 hold
OutOfRangePayloads ==
  {Json(HashB, 5, 6, LateTime, "station2"), Json(HashB, -60, 0, LateTime, "station3")}

\* a field missing, a number its Rust type cannot hold, bytes that are not UTF-8
UndecodablePayloads ==
  {[utf8 |-> TRUE, json |-> [rssi |-> -60, channel |-> 6, timestamp |-> LateTime, station |-> "station1"]],
   [utf8 |-> TRUE, json |-> [mac_hash |-> HashA, channel |-> 6, timestamp |-> LateTime, station |-> "station1"]],
   [utf8 |-> TRUE, json |-> [mac_hash |-> HashA, rssi |-> -60, timestamp |-> LateTime, station |-> "station1"]],
   [utf8 |-> TRUE, json |-> [mac_hash |-> HashA, rssi |-> -60, channel |-> 6, station |-> "station1"]],
   [utf8 |-> TRUE, json |-> [mac_hash |-> HashA, rssi |-> -60, channel |-> 6, timestamp |-> LateTime]],
   Json(HashA, 128, 6, LateTime, "station1"),
   Json(HashA, -129, 6, LateTime, "station1"),
   Json(HashA, -60, 256, LateTime, "station1"),
   Json(HashA, -60, -1, LateTime, "station1"),
   Json(HashA, -60, 6, -1, "station1"),
   [utf8 |-> FALSE, json |-> Json(HashA, -60, 6, LateTime, "station1").json]}

Payloads == InRangePayloads \cup OutOfRangePayloads \cup UndecodablePayloads

\* std::str::from_utf8 and serde_json::from_str::<MqttDeviceEvent>: every
\* field of the struct must be there and fit its type (String, i8, u8, u64,
\* String).  Nothing else is looked at.
from_str(payload) ==
  IF ~payload.utf8 THEN None
  ELSE IF ~({"mac_hash", "rssi", "channel", "timestamp", "station"}
              \subseteq DOMAIN payload.json) THEN None
  ELSE IF payload.json.rssi \notin -128..127 THEN None
  ELSE IF payload.json.channel \notin 0..255 THEN None
  ELSE IF payload.json.timestamp < 0 THEN None
  ELSE Some([mac_hash |-> payload.json.mac_hash,
             rssi |-> payload.json.rssi,
             channel |-> payload.json.channel,
             timestamp |-> payload.json.timestamp,
             station |-> payload.json.station])

observe_replaces_map(devs, event) ==
  [m \in DOMAIN devs \cup {event.mac_hash} |->
     IF m = event.mac_hash
     THEN [mac_hash |-> event.mac_hash,
           readings |-> [s \in {event.station} |->
                           [rssi |-> event.rssi, timestamp |-> event.timestamp]],
           last_seen |-> event.timestamp,
           position |-> IF m \in DOMAIN devs THEN devs[m].position ELSE None]
     ELSE devs[m]]

\* devices.entry(mac_hash).or_insert_with(..); device.readings.insert(..);
\* device.last_seen = event.timestamp
observe(devs, event) ==
  LET device ==
        IF event.mac_hash \in DOMAIN devs THEN devs[event.mac_hash]
        ELSE [mac_hash |-> event.mac_hash, readings |-> EmptyMap,
              last_seen |-> event.timestamp, position |-> None]
      readings ==
        [s \in DOMAIN device.readings \cup {event.station} |->
           IF s = event.station
           THEN [rssi |-> event.rssi, timestamp |-> event.timestamp]
           ELSE device.readings[s]]
      updated ==
        [mac_hash |-> device.mac_hash, readings |-> readings,
         last_seen |-> event.timestamp, position |-> device.position]
  IN [m \in DOMAIN devs \cup {event.mac_hash} |->
        IF m = event.mac_hash THEN updated ELSE devs[m]]

\* the copy of device.readings handed to the tracker
readings_for_triangulation(device) ==
  [s \in DOMAIN device.readings |->
     [rssi |-> device.readings[s].rssi,
      timestamp |-> device.readings[s].timestamp]]

cleanup_old_devices_evicts(devs) ==
  [m \in {d \in DOMAIN devs : devs[d].last_seen >= LateTime} |-> devs[m]]

\* cleanup_old_devices: the body is empty
cleanup_old_devices(devs) == devs

\* rand::random::<u8>()
RandomBytes == {0, 9, 10, 255}

\* tokio::sync::RwLock: read() is granted while no writer holds the lock,
\* write() while nobody holds it.
rwlock_read_ignores_writer(lock) == "Ok"

rwlock_read(lock) == IF lock.writer THEN "Pending" ELSE "Ok"

rwlock_write(lock) ==
  IF lock.writer \/ lock.readers > 0 THEN "Pending" ELSE "Ok"

\* devices.values().cloned().collect()
device_values(devs) == {devs[m] : m \in DOMAIN devs}

\* ------------------------------------------------------------------------
\* esp_sniffer_rs::triangulate (the library crate is not among the sources;
\* modelled after the specification's Multilaterator and Position Tracker)
\* ------------------------------------------------------------------------
\* freshness horizon: 30 s in microseconds
FRESHNESS_HORIZON == 30000000

newest_timestamp(readings) ==
  CHOOSE t \in {readings[s].timestamp : s \in DOMAIN readings} :
    \A s \in DOMAIN readings : readings[s].timestamp <= t

\* step 2: the stations whose reading is within the horizon of the newest one
fresh_stations(readings) ==
  {s \in DOMAIN readings :
     newest_timestamp(readings) - readings[s].timestamp <= FRESHNESS_HORIZON}

\* The 2x2 normal matrix of the linearised equations is singular exactly
\* when every station lies on one line through the reference station.
collinear(anchors) ==
  \A a, b, c \in anchors :
    (b.x - a.x) * (c.y - a.y) = (c.x - a.x) * (b.y - a.y)

multilaterate(anchors) ==
  IF Cardinality(anchors) < 3 THEN "insufficient anchors"
  ELSE IF collinear(anchors) THEN "ill-conditioned"
  ELSE "solved"

update_position_two_anchors(tracker, stations, mac_hash, readings) ==
  LET anchors == {st \in stations : st.id \in fresh_stations(readings)}
      solved == Cardinality(anchors) >= 2
      position == [stations |-> Cardinality(anchors),
                   smoothed |-> mac_hash \in DOMAIN tracker]
  IN [position |-> IF solved THEN Some(position) ELSE None,
      tracker |-> IF solved
                  THEN [m \in DOMAIN tracker \cup {mac_hash} |->
                          IF m = mac_hash THEN position ELSE tracker[m]]
                  ELSE [m \in DOMAIN tracker \ {mac_hash} |-> tracker[m]]]

\* PositionTracker::update_position.  A Position is kept as the number of
\* contributing stations and whether a prior entered the smoothing; the
\* coordinates and the residual are not carried.  Fewer than 3 fresh
\* readings, or a geometry the solver cannot handle, clears the position.
update_position(tracker, stations, mac_hash, readings) ==
  LET anchors == {st \in stations : st.id \in fresh_stations(readings)}
      solved == /\ Cardinality(fresh_stations(readings)) >= 3
                /\ multilaterate(anchors) = "solved"
      position == [stations |-> Cardinality(anchors),
                   smoothed |-> mac_hash \in DOMAIN tracker]
  IN [position |-> IF solved THEN Some(position) ELSE None,
      tracker |-> IF solved
                  THEN [m \in DOMAIN tracker \cup {mac_hash} |->
                          IF m = mac_hash THEN position ELSE tracker[m]]
                  ELSE [m \in DOMAIN tracker \ {mac_hash} |-> tracker[m]]]

\* ------------------------------------------------------------------------
\* State
\* ------------------------------------------------------------------------
VARIABLES
  main_pc,         \* where main is
  pub_pc,          \* where the publisher thread is
  EVENT_SENDER,    \* the Mutex<Option<SyncSender>>: [locked, sender]
  PACKET_COUNT,
  DROPPED_COUNT,
  SENT_COUNT,
  SKIP_COUNT,
  chan,            \* events buffered in the sync_channel
  receiver,        \* the Receiver: "none", "alive" or "dropped"
  mqtt_connected,  \* broker connection as the client's events report it
  enqueue_calls,   \* calls of client.enqueue so far
  station_id,      \* the publisher's station_id field ("" before new)
  last_payload,    \* what the latest publish_event formatted
  last_bytes,      \* the bytes of the latest client.enqueue call
  esp_timer,       \* esp_timer_get_time(), in ticks since the initial state
  frames_passed,   \* history: callback invocations that passed the filter
  offers,          \* history: every try_send of the callback, with its result
  delivered,       \* history: events recv_timeout returned to the publisher
  enqueue_failures,    \* history: client.enqueue calls that returned an error
  received_while_down, \* history: an event was received while disconnected
  config,          \* server: config.stations
  sub_pc,          \* server: where the MQTT subscriber task is
  sub_event,       \* server: the event the subscriber is working on
  devices,         \* server: the HashMap behind state.devices
  devices_lock,    \* server: the RwLock of state.devices: [writer, readers, waiters]
  position_tracker,    \* server: per device, the last smoothed position
  ws_pc,           \* server: per connection, where its broadcaster task is
  device_list,     \* server: per connection, the records cloned last
  ingested         \* history: the events that went into the store

station_vars ==
  <<main_pc, pub_pc, EVENT_SENDER, PACKET_COUNT, DROPPED_COUNT, SENT_COUNT,
    SKIP_COUNT, chan, receiver, mqtt_connected, enqueue_calls, station_id,
    last_payload, last_bytes, esp_timer, frames_passed, offers, delivered,
    enqueue_failures, received_while_down>>

server_vars ==
  <<config, sub_pc, sub_event, devices, devices_lock, position_tracker, ws_pc,
    device_list, ingested>>

vars == <<station_vars, server_vars>>

\* The clients that may open a WebSocket connection.
OneClient == {1}

TwoClients == {1, 2}

\* main of web-gui: the configuration is loaded, the tracker and the empty
\* store are created, the subscriber is spawned; nobody is connected.
web_gui_main(stations, clients) ==
  /\ config = stations
  /\ sub_pc = "poll"
  /\ sub_event = None
  /\ devices = EmptyMap
  /\ devices_lock = [writer |-> FALSE, readers |-> 0, waiters |-> <<>>]
  /\ position_tracker = EmptyMap
  /\ ws_pc = [c \in clients |-> "closed"]
  /\ device_list = [c \in clients |-> {}]
  /\ ingested = {}

NoPayload == [mac_hash |-> <<>>, rssi |-> 0, channel |-> 0, timestamp |-> 0,
              station |-> ""]

\* the station program at the start of main
station_main ==
  /\ main_pc = "start"
  /\ pub_pc = "unspawned"
  /\ EVENT_SENDER = [locked |-> FALSE, sender |-> "None"]
  /\ PACKET_COUNT = u32(0)
  /\ DROPPED_COUNT = u32(0)
  /\ SENT_COUNT = u32(0)
  /\ SKIP_COUNT = u32(0)
  /\ chan = <<>>
  /\ receiver = "none"
  /\ mqtt_connected = FALSE
  /\ enqueue_calls = 0
  /\ last_payload = NoPayload
  /\ last_bytes = ""
  /\ station_id = ""
  /\ esp_timer = 0
  /\ frames_passed = u32(0)
  /\ offers = <<>>
  /\ delivered = <<>>
  /\ enqueue_failures = 0
  /\ received_while_down = FALSE

Init ==
  /\ station_main
  /\ web_gui_main(RoomStations, OneClient)

\* SyncSender handles alive: tx exists from create_event_channel on and is
\* then kept in the static EVENT_SENDER, which main never clears.  An owner
\* of tx other than main may drop it ("tx_dropped").
live_senders == IF main_pc \in {"start", "tx_dropped"} THEN 0 ELSE 1

\* ------------------------------------------------------------------------
\* main
\* ------------------------------------------------------------------------
\* let (tx, rx) = mqtt::create_event_channel();
create_event_channel ==
  /\ main_pc = "start"
  /\ main_pc' = "channel"
  /\ chan' = <<>>
  /\ receiver' = "alive"
  /\ UNCHANGED server_vars
  /\ UNCHANGED <<pub_pc, EVENT_SENDER, PACKET_COUNT, DROPPED_COUNT, SENT_COUNT,
                 SKIP_COUNT, mqtt_connected, enqueue_calls, last_payload,
                 last_bytes, station_id,
                 esp_timer, frames_passed, offers, delivered,
                 enqueue_failures, received_while_down>>

\* set_event_sender: EVENT_SENDER.lock()
set_event_sender_lock ==
  /\ main_pc = "channel"
  /\ ~EVENT_SENDER.locked
  /\ main_pc' = "locked"
  /\ EVENT_SENDER' = [EVENT_SENDER EXCEPT !.locked = TRUE]
  /\ UNCHANGED server_vars
  /\ UNCHANGED <<pub_pc, PACKET_COUNT, DROPPED_COUNT, SENT_COUNT, SKIP_COUNT,
                 chan, receiver, mqtt_connected, enqueue_calls, last_payload,
                 last_bytes, station_id,
                 esp_timer, frames_passed, offers, delivered,
                 enqueue_failures, received_while_down>>

\* (variant for mutation: the guard is dropped with the slot left empty)
set_event_sender_store_leaves_none ==
  /\ main_pc = "locked"
  /\ main_pc' = "sender_set"
  /\ EVENT_SENDER' = [locked |-> FALSE, sender |-> "None"]
  /\ UNCHANGED server_vars
  /\ UNCHANGED <<pub_pc, PACKET_COUNT, DROPPED_COUNT, SENT_COUNT, SKIP_COUNT,
                 chan, receiver, mqtt_connected, enqueue_calls, last_payload,
                 last_bytes, station_id,
                 esp_timer, frames_passed, offers, delivered,
                 enqueue_failures, received_while_down>>

\* set_event_sender: *guard = Some(sender); the guard is dropped
set_event_sender_store ==
  /\ main_pc = "locked"
  /\ main_pc' = "sender_set"
  /\ EVENT_SENDER' = [locked |-> FALSE, sender |-> "Some"]
  /\ UNCHANGED server_vars
  /\ UNCHANGED <<pub_pc, PACKET_COUNT, DROPPED_COUNT, SENT_COUNT, SKIP_COUNT,
                 chan, receiver, mqtt_connected, enqueue_calls, last_payload,
                 last_bytes, station_id,
                 esp_timer, frames_passed, offers, delivered,
                 enqueue_failures, received_while_down>>

\* thread::spawn(move || MqttPublisher::new(&station_id, rx) ...)
spawn_publisher ==
  /\ main_pc = "sender_set"
  /\ main_pc' = "spawned"
  /\ pub_pc' = "new"
  /\ UNCHANGED server_vars
  /\ UNCHANGED <<EVENT_SENDER, PACKET_COUNT, DROPPED_COUNT, SENT_COUNT,
                 SKIP_COUNT, chan, receiver, mqtt_connected, enqueue_calls,
                 last_payload,
                 last_bytes, station_id, esp_timer, frames_passed, offers, delivered,
                 enqueue_failures, received_while_down>>

\* thread::sleep(1 s); sniffer::start_sniffer()?
start_sniffer ==
  /\ main_pc = "spawned"
  /\ \E esp_ok \in BOOLEAN :
       main_pc' = IF esp_ok THEN "sniffing" ELSE "exited"
  /\ UNCHANGED server_vars
  /\ UNCHANGED <<pub_pc, EVENT_SENDER, PACKET_COUNT, DROPPED_COUNT, SENT_COUNT,
                 SKIP_COUNT, chan, receiver, mqtt_connected, enqueue_calls,
                 last_payload,
                 last_bytes, station_id, esp_timer, frames_passed, offers, delivered,
                 enqueue_failures, received_while_down>>

\* the statistics loop: reads the three counters and logs them
main_loop ==
  /\ main_pc = "sniffing"
  /\ UNCHANGED vars

\* ------------------------------------------------------------------------
\* The sniffer callback
\* ------------------------------------------------------------------------
promiscuous_rx_callback(frame, limit) ==
  /\ main_pc = "sniffing"
  /\ IF ~passes_filter(frame)
     THEN UNCHANGED vars
     ELSE
       /\ esp_timer < limit
       /\ LET count == PACKET_COUNT
              timestamp == esp_timer
          IN
          /\ PACKET_COUNT' = u32_add1(PACKET_COUNT)
          /\ frames_passed' = wide_add1(frames_passed)
          /\ esp_timer' = esp_timer + 1
          /\ IF /\ rate_limit(count)
                /\ try_lock(EVENT_SENDER) = "Ok"
                /\ EVENT_SENDER.sender = "Some"
             THEN
               \E out \in try_send(chan, receiver, DeviceEvent(frame, timestamp)) :
                 /\ chan' = out.chan
                 /\ offers' = Append(offers,
                      [frame |-> frame,
                       event |-> DeviceEvent(frame, timestamp),
                       result |-> out.result])
                 /\ IF out.result = "Ok"
                    THEN /\ SENT_COUNT' = u32_add1(SENT_COUNT)
                         /\ UNCHANGED DROPPED_COUNT
                    ELSE /\ DROPPED_COUNT' = u32_add1(DROPPED_COUNT)
                         /\ UNCHANGED SENT_COUNT
             ELSE UNCHANGED <<chan, offers, SENT_COUNT, DROPPED_COUNT>>
          /\ UNCHANGED server_vars
          /\ UNCHANGED <<main_pc, pub_pc, EVENT_SENDER, SKIP_COUNT, receiver,
                         mqtt_connected, enqueue_calls, last_payload,
                         last_bytes, station_id, delivered,
                         enqueue_failures, received_while_down>>

\* the radio driver delivers some frame
rx_frame == \E frame \in Frames : promiscuous_rx_callback(frame, MaxPackets)

\* ------------------------------------------------------------------------
\* The publisher thread
\* ------------------------------------------------------------------------
\* MqttPublisher::new: EspMqttClient::new_cb(...)? either yields the client
\* or the error that ends the thread, dropping rx and what it buffers.
MqttPublisher_new ==
  /\ pub_pc = "new"
  /\ \E created \in BOOLEAN :
       IF created
       THEN /\ pub_pc' = "run"
            /\ station_id' = STATION_ID
            /\ UNCHANGED <<receiver, chan>>
       ELSE /\ pub_pc' = "failed"
            /\ receiver' = "dropped"
            /\ chan' = <<>>
            /\ UNCHANGED station_id
  /\ UNCHANGED server_vars
  /\ UNCHANGED <<main_pc, EVENT_SENDER, PACKET_COUNT, DROPPED_COUNT, SENT_COUNT,
                 SKIP_COUNT, mqtt_connected, enqueue_calls, last_payload, last_bytes,
                 esp_timer, frames_passed, offers, delivered,
                 enqueue_failures, received_while_down>>

\* One iteration of the loop of MqttPublisher::run.  pub_pc = "returned" is
\* run having returned Ok(()), "returned_err" the error `?` would pass on.
MqttPublisher_run ==
  /\ pub_pc = "run"
  /\ LET r == recv_timeout(chan, live_senders) IN
     CASE r.result = "Ok" ->
            \E enqueue_ok \in {TRUE} \cup {ok \in {FALSE} : u32_int(SKIP_COUNT) < MaxSkips} :
              LET p == publish_event(r.event, station_id, enqueue_ok, SKIP_COUNT) IN
              /\ chan' = r.chan
              /\ delivered' = Append(delivered, r.event)
              /\ enqueue_calls' = enqueue_calls + p.enqueues
              /\ last_payload' = p.payload
              /\ last_bytes' = p.bytes
              /\ SKIP_COUNT' = p.skip
              /\ enqueue_failures' = enqueue_failures + (IF enqueue_ok THEN 0 ELSE 1)
              /\ received_while_down' = (received_while_down \/ ~mqtt_connected)
              /\ IF p.result = "Ok"
                 THEN UNCHANGED <<pub_pc, receiver>>
                 ELSE /\ pub_pc' = "returned_err"
                      /\ receiver' = "dropped"
              /\ UNCHANGED server_vars
              /\ UNCHANGED <<main_pc, EVENT_SENDER, PACKET_COUNT, DROPPED_COUNT,
                             SENT_COUNT, mqtt_connected, station_id, esp_timer,
                             frames_passed, offers>>
       [] r.result = "Timeout" -> UNCHANGED vars
       [] r.result = "Disconnected" ->
            /\ pub_pc' = "returned"
            /\ receiver' = "dropped"
            /\ UNCHANGED server_vars
            /\ UNCHANGED <<main_pc, EVENT_SENDER, PACKET_COUNT, DROPPED_COUNT,
                           SENT_COUNT, SKIP_COUNT, chan, mqtt_connected,
                           enqueue_calls, last_payload, last_bytes, station_id, esp_timer,
                           frames_passed, offers, delivered,
                 enqueue_failures, received_while_down>>

\* The client's event callback: Connected / Disconnected are only logged.
\* Nothing the callback or the publisher does reads the connection state.
mqtt_event ==
  /\ pub_pc = "run"
  /\ mqtt_connected' = ~mqtt_connected
  /\ UNCHANGED server_vars
  /\ UNCHANGED <<main_pc, pub_pc, EVENT_SENDER, PACKET_COUNT, DROPPED_COUNT,
                 SENT_COUNT, SKIP_COUNT, chan, receiver, enqueue_calls,
                 last_payload,
                 last_bytes, station_id, esp_timer, frames_passed, offers, delivered,
                 enqueue_failures, received_while_down>>

Next ==
  \/ create_event_channel
  \/ set_event_sender_lock
  \/ set_event_sender_store
  \/ spawn_publisher
  \/ start_sniffer
  \/ main_loop
  \/ rx_frame
  \/ MqttPublisher_new
  \/ MqttPublisher_run

Spec == Init /\ [][Next]_vars

\* The same program with the broker connection coming and going, the radio
\* silent after MaxLivePackets filtered frames, and the publisher thread
\* scheduled fairly.
rx_frame_live == \E frame \in Frames : promiscuous_rx_callback(frame, MaxLivePackets)

LiveNext ==
  \/ create_event_channel
  \/ set_event_sender_lock
  \/ set_event_sender_store
  \/ spawn_publisher
  \/ start_sniffer
  \/ main_loop
  \/ rx_frame_live
  \/ MqttPublisher_new
  \/ MqttPublisher_run
  \/ mqtt_event

LiveSpec == Init /\ [][LiveNext]_vars /\ WF_vars(MqttPublisher_run)

\* ------------------------------------------------------------------------
\* The station after 2^32 - 2 filtered frames
\* ------------------------------------------------------------------------
\* A station in normal operation that has filtered 2^32 - 2 frames:
\* PACKET_COUNT = 4294967294.  The 85899346 forwarding attempts made at the
\* counts 0, 50, ..., 4294967250 all succeeded and the publisher has
\* published every event, the last one 44 frames ago.  The history variables
\* offers and delivered start afresh here, and the clock counts from here.
PreWrapFrames == [hi |-> HALF - 1, lo |-> HALF - 2]

\* the counts 0 .. 2^32 - 3 that are multiples of SEND_RATE
PreWrapForwards == wide_div([hi |-> HALF - 1, lo |-> HALF - 3], SEND_RATE) + 1

PreWrapLastFrame ==
  [null |-> FALSE, sig_len |-> 24, addr2 |-> UnicastMac, rssi |-> -60, channel |-> 6]

WrapInit ==
  /\ main_pc = "sniffing"
  /\ pub_pc = "run"
  /\ EVENT_SENDER = [locked |-> FALSE, sender |-> "Some"]
  /\ PACKET_COUNT = PreWrapFrames
  /\ DROPPED_COUNT = u32(0)
  /\ SENT_COUNT = u32(PreWrapForwards)
  /\ SKIP_COUNT = u32(0)
  /\ chan = <<>>
  /\ receiver = "alive"
  /\ mqtt_connected = TRUE
  /\ enqueue_calls = PreWrapForwards
  /\ last_payload = format_payload(DeviceEvent(PreWrapLastFrame, -44), STATION_ID)
  /\ last_bytes = payload_slice(
       payload_str(DeviceEvent(PreWrapLastFrame, -44), STATION_ID))
  /\ station_id = STATION_ID
  /\ esp_timer = 0
  /\ frames_passed = PreWrapFrames
  /\ offers = <<>>
  /\ delivered = <<>>
  /\ enqueue_failures = 0
  /\ received_while_down = FALSE
  /\ web_gui_main(RoomStations, OneClient)

rx_frame_wrap == \E frame \in Frames : promiscuous_rx_callback(frame, MaxWrapPackets)

WrapNext ==
  \/ main_loop
  \/ rx_frame_wrap
  \/ MqttPublisher_run
  \/ mqtt_event

WrapSpec == WrapInit /\ [][WrapNext]_vars

\* ------------------------------------------------------------------------
\* The publisher against a channel whose sender is dropped
\* ------------------------------------------------------------------------
\* mqtt::create_event_channel hands tx to its caller and MqttPublisher::new
\* takes rx.  Here the caller is an owner of tx that sends up to MaxSends
\* events with try_send and may drop tx at any moment, as any code but the
\* static EVENT_SENDER would at the end of its scope.
DropInit ==
  /\ main_pc = "tx_held"
  /\ pub_pc = "new"
  /\ EVENT_SENDER = [locked |-> FALSE, sender |-> "None"]
  /\ PACKET_COUNT = u32(0)
  /\ DROPPED_COUNT = u32(0)
  /\ SENT_COUNT = u32(0)
  /\ SKIP_COUNT = u32(0)
  /\ chan = <<>>
  /\ receiver = "alive"
  /\ mqtt_connected = FALSE
  /\ enqueue_calls = 0
  /\ last_payload = NoPayload
  /\ last_bytes = ""
  /\ station_id = ""
  /\ esp_timer = 0
  /\ frames_passed = u32(0)
  /\ offers = <<>>
  /\ delivered = <<>>
  /\ enqueue_failures = 0
  /\ received_while_down = FALSE
  /\ web_gui_main(RoomStations, OneClient)

\* tx.try_send(event)
tx_send ==
  /\ main_pc = "tx_held"
  /\ esp_timer < MaxSends
  /\ LET event == DeviceEvent(PreWrapLastFrame, esp_timer) IN
     \E out \in try_send(chan, receiver, event) :
       /\ chan' = out.chan
       /\ offers' = Append(offers,
            [frame |-> PreWrapLastFrame, event |-> event, result |-> out.result])
  /\ esp_timer' = esp_timer + 1
  /\ UNCHANGED server_vars
  /\ UNCHANGED <<main_pc, pub_pc, EVENT_SENDER, PACKET_COUNT, DROPPED_COUNT,
                 SENT_COUNT, SKIP_COUNT, receiver, mqtt_connected,
                 enqueue_calls, last_payload,
                 last_bytes, station_id, frames_passed, delivered,
                 enqueue_failures, received_while_down>>

\* drop(tx): the channel has no sender left
tx_drop ==
  /\ main_pc = "tx_held"
  /\ main_pc' = "tx_dropped"
  /\ UNCHANGED server_vars
  /\ UNCHANGED <<pub_pc, EVENT_SENDER, PACKET_COUNT, DROPPED_COUNT, SENT_COUNT,
                 SKIP_COUNT, chan, receiver, mqtt_connected, enqueue_calls,
                 last_payload,
                 last_bytes, station_id, esp_timer, frames_passed, offers, delivered,
                 enqueue_failures, received_while_down>>

DropNext ==
  \/ tx_send
  \/ tx_drop
  \/ MqttPublisher_new
  \/ MqttPublisher_run
  \/ mqtt_event

DropSpec == DropInit /\ [][DropNext]_vars

\* ------------------------------------------------------------------------
\* publish_event over the range of its inputs
\* ------------------------------------------------------------------------
\* A publisher constructed for any station id (STATION_ID is whatever the
\* build environment holds) in run, with one event of mqtt.rs's DeviceEvent
\* type waiting in the channel: a 32-byte hash, rssi over i8, channel over
\* u8, and a timestamp of one to ten digits.
ZeroHash == [i \in 1..32 |-> 0]

FullHash == [i \in 1..32 |-> 255]

RssiInputs == {-128, -60, 0, 127}

ChannelInputs == {0, 6, 255}

TimestampInputs == {0, 5000000, 2147483647}

PayloadEvents ==
  {[mac |-> h, rssi |-> r, channel |-> c, timestamp |-> t] :
     h \in {ZeroHash, FullHash}, r \in RssiInputs, c \in ChannelInputs,
     t \in TimestampInputs}

LongId59 == "station-012345678901234567890123456789012345678901234567890"

LongId60 == "station-012345678901234567890123456789012345678901234567890x"

StationIds == {"", STATION_ID, LongId59, LongId60}

PayloadInit ==
  /\ main_pc = "sniffing"
  /\ pub_pc = "run"
  /\ EVENT_SENDER = [locked |-> FALSE, sender |-> "Some"]
  /\ PACKET_COUNT = u32(0)
  /\ DROPPED_COUNT = u32(0)
  /\ SENT_COUNT = u32(1)
  /\ SKIP_COUNT = u32(0)
  /\ chan \in {<<event>> : event \in PayloadEvents}
  /\ receiver = "alive"
  /\ mqtt_connected = TRUE
  /\ enqueue_calls = 0
  /\ station_id \in StationIds
  /\ last_payload = NoPayload
  /\ last_bytes = ""
  /\ esp_timer = 0
  /\ frames_passed = u32(0)
  /\ offers = <<>>
  /\ delivered = <<>>
  /\ enqueue_failures = 0
  /\ received_while_down = FALSE
  /\ web_gui_main(RoomStations, OneClient)

PayloadNext == MqttPublisher_run

PayloadSpec == PayloadInit /\ [][PayloadNext]_vars

\* ------------------------------------------------------------------------
\* The server: the MQTT subscriber task
\* ------------------------------------------------------------------------
\* what the end of a loop iteration may do to the store
end_of_iteration(devs, random) ==
  IF random < 10 THEN cleanup_old_devices(devs) ELSE devs

\* poll() yields a Publish whose payload decodes: devices.write() is
\* granted, the record is created or updated, and the task arrives at
\* position_tracker.write().await with the devices guard in hand.
ingest_observe ==
  /\ sub_pc = "poll"
  /\ \E payload \in Payloads :
       /\ from_str(payload) # None
       /\ LET ev == CHOOSE e \in from_str(payload) : TRUE IN
          /\ Cardinality(ingested \cup {ev}) <= MaxEvents
          /\ rwlock_write(devices_lock) = "Ok"
          /\ devices_lock' = [devices_lock EXCEPT !.writer = TRUE]
          /\ devices' = observe(devices, ev)
          /\ sub_event' = Some(ev)
          /\ ingested' = ingested \cup {ev}
  /\ sub_pc' = "position"
  /\ UNCHANGED <<config, position_tracker, ws_pc, device_list>>
  /\ UNCHANGED station_vars

\* tracker.update_position(..) under both guards, device.position assigned,
\* the guards dropped at the end of the block, then the end of the iteration
ingest_position ==
  /\ sub_pc = "position"
  /\ LET ev == CHOOSE e \in sub_event : TRUE
         r == update_position(position_tracker, config, ev.mac_hash,
                              readings_for_triangulation(devices[ev.mac_hash]))
     IN
     /\ \E random \in RandomBytes :
          devices' = end_of_iteration(
                       [devices EXCEPT ![ev.mac_hash].position = r.position],
                       random)
     /\ position_tracker' = r.tracker
  /\ devices_lock' = [devices_lock EXCEPT !.writer = FALSE]
  /\ sub_event' = None
  /\ sub_pc' = "poll"
  /\ UNCHANGED <<config, ws_pc, device_list, ingested>>
  /\ UNCHANGED station_vars

\* poll() yields a Publish whose payload does not decode
ingest_discard ==
  /\ sub_pc = "poll"
  /\ \E payload \in Payloads :
       /\ from_str(payload) = None
       /\ \E random \in RandomBytes :
            devices' = end_of_iteration(devices, random)
  /\ UNCHANGED <<config, sub_pc, sub_event, devices_lock, position_tracker, ws_pc,
                 device_list, ingested>>
  /\ UNCHANGED station_vars

\* poll() yields any other packet: Ok(_) => {}
mqtt_other ==
  /\ sub_pc = "poll"
  /\ \E random \in RandomBytes : devices' = end_of_iteration(devices, random)
  /\ UNCHANGED <<config, sub_pc, sub_event, devices_lock, position_tracker, ws_pc,
                 device_list, ingested>>
  /\ UNCHANGED station_vars

\* poll() yields Err(e): logged, then a sleep of 1 s
mqtt_error ==
  /\ sub_pc = "poll"
  /\ \E random \in RandomBytes : devices' = end_of_iteration(devices, random)
  /\ UNCHANGED <<config, sub_pc, sub_event, devices_lock, position_tracker, ws_pc,
                 device_list, ingested>>
  /\ UNCHANGED station_vars

\* ------------------------------------------------------------------------
\* The server: a WebSocket connection and its broadcaster task
\* ------------------------------------------------------------------------
\* websocket_connection: tx_task is spawned and sleeps
websocket_connection(c) ==
  /\ ws_pc[c] = "closed"
  /\ ws_pc' = [ws_pc EXCEPT ![c] = "sleep"]
  /\ UNCHANGED <<config, sub_pc, sub_event, devices, devices_lock,
                 position_tracker, device_list, ingested>>
  /\ UNCHANGED station_vars

\* state.devices.read().await is granted
ws_read(c) ==
  /\ ws_pc[c] = "sleep"
  /\ rwlock_read(devices_lock) = "Ok"
  /\ devices_lock' = [devices_lock EXCEPT !.readers = @ + 1]
  /\ ws_pc' = [ws_pc EXCEPT ![c] = "cloning"]
  /\ UNCHANGED <<config, sub_pc, sub_event, devices, position_tracker,
                 device_list, ingested>>
  /\ UNCHANGED station_vars

\* (variant for mutation: the read guard is never dropped)
ws_send_keeps_guard(c) ==
  /\ ws_pc[c] = "cloning"
  /\ device_list' = [device_list EXCEPT ![c] = device_values(devices)]
  /\ \E sent \in BOOLEAN :
       ws_pc' = [ws_pc EXCEPT ![c] = IF sent THEN "sleep" ELSE "closed"]
  /\ UNCHANGED <<config, sub_pc, sub_event, devices, devices_lock,
                 position_tracker, ingested>>
  /\ UNCHANGED station_vars

\* the records are cloned, the guard is dropped, the list is serialised and
\* sent; a failed send ends the task
ws_send(c) ==
  /\ ws_pc[c] = "cloning"
  /\ device_list' = [device_list EXCEPT ![c] = device_values(devices)]
  /\ devices_lock' = [devices_lock EXCEPT !.readers = @ - 1]
  /\ \E sent \in BOOLEAN :
       ws_pc' = [ws_pc EXCEPT ![c] = IF sent THEN "sleep" ELSE "closed"]
  /\ UNCHANGED <<config, sub_pc, sub_event, devices, position_tracker, ingested>>
  /\ UNCHANGED station_vars

\* the peer closes: tx_task.abort() takes effect at the task's next await,
\* the sleep or the wait for the read lock ("reading", in LockSpec), where
\* the dropped future leaves the lock's queue
ws_close(c) ==
  /\ ws_pc[c] \in {"sleep", "reading"}
  /\ ws_pc' = [ws_pc EXCEPT ![c] = "closed"]
  /\ devices_lock' = [devices_lock EXCEPT !.waiters = SelectSeq(@, LAMBDA t : t # c)]
  /\ UNCHANGED <<config, sub_pc, sub_event, devices, position_tracker,
                 device_list, ingested>>
  /\ UNCHANGED station_vars

ServerNext ==
  \/ ingest_observe
  \/ ingest_position
  \/ ingest_discard
  \/ mqtt_other
  \/ mqtt_error
  \/ \E c \in DOMAIN ws_pc : websocket_connection(c)
  \/ \E c \in DOMAIN ws_pc : ws_read(c)
  \/ \E c \in DOMAIN ws_pc : ws_send(c)
  \/ \E c \in DOMAIN ws_pc : ws_close(c)

\* The server with either station layout; no station program runs.
ServerInit ==
  /\ station_main
  /\ \E stations \in Configs : web_gui_main(stations, OneClient)

ServerSpec == ServerInit /\ [][ServerNext]_vars

\* ------------------------------------------------------------------------
\* The server with the waits for the Device Store lock as states
\* ------------------------------------------------------------------------
\* ServerSpec takes the request and the grant of a lock as one step: a task
\* that finds the lock taken looks like one that has not asked yet.  Here a
\* task that has reached devices.write().await or devices.read().await and
\* has not been granted the lock is in a state of its own ("write",
\* "reading"), two clients are connected, and the messages are two.
\* tokio's RwLock serves its waiters first in, first out: a task that cannot
\* have the lock at once joins the queue, and only the head of the queue is
\* granted, so readers that arrive behind a waiting writer wait as well.
Ingestor == 0

LockPayloads ==
  {Json(HashA, -60, 6, EarlyTime, "station1"), Json(HashA, -60, 6, LateTime, "station2")}

\* poll() yields a Publish whose payload decodes; the task arrives at
\* state.devices.write().await
ingest_request ==
  /\ sub_pc = "poll"
  /\ \E payload \in LockPayloads :
       /\ from_str(payload) # None
       /\ sub_event' = from_str(payload)
  /\ sub_pc' = "write"
  /\ devices_lock' = [devices_lock EXCEPT !.waiters = Append(@, Ingestor)]
  /\ UNCHANGED <<config, devices, position_tracker, ws_pc, device_list, ingested>>
  /\ UNCHANGED station_vars

\* devices.write() is granted: the record is created or updated, and the
\* task arrives at position_tracker.write().await with the guard in hand
ingest_write ==
  /\ sub_pc = "write"
  /\ Head(devices_lock.waiters) = Ingestor
  /\ rwlock_write(devices_lock) = "Ok"
  /\ LET ev == CHOOSE e \in sub_event : TRUE IN
     /\ devices' = observe(devices, ev)
     /\ ingested' = ingested \cup {ev}
  /\ devices_lock' = [devices_lock EXCEPT !.writer = TRUE, !.waiters = Tail(@)]
  /\ sub_pc' = "position"
  /\ UNCHANGED <<config, sub_event, position_tracker, ws_pc, device_list>>
  /\ UNCHANGED station_vars

\* the sleep of 100 ms is over; the task arrives at devices.read().await
ws_request(c) ==
  /\ ws_pc[c] = "sleep"
  /\ ws_pc' = [ws_pc EXCEPT ![c] = "reading"]
  /\ devices_lock' = [devices_lock EXCEPT !.waiters = Append(@, c)]
  /\ UNCHANGED <<config, sub_pc, sub_event, devices, position_tracker,
                 device_list, ingested>>
  /\ UNCHANGED station_vars

\* devices.read() is granted
ws_granted(c) ==
  /\ ws_pc[c] = "reading"
  /\ Head(devices_lock.waiters) = c
  /\ rwlock_read(devices_lock) = "Ok"
  /\ devices_lock' = [devices_lock EXCEPT !.readers = @ + 1, !.waiters = Tail(@)]
  /\ ws_pc' = [ws_pc EXCEPT ![c] = "cloning"]
  /\ UNCHANGED <<config, sub_pc, sub_event, devices, position_tracker,
                 device_list, ingested>>
  /\ UNCHANGED station_vars

LockInit ==
  /\ station_main
  /\ web_gui_main(RoomStations, TwoClients)

LockNext ==
  \/ ingest_request
  \/ ingest_write
  \/ ingest_position
  \/ ingest_discard
  \/ mqtt_other
  \/ mqtt_error
  \/ \E c \in TwoClients : websocket_connection(c)
  \/ \E c \in TwoClients : ws_request(c)
  \/ \E c \in TwoClients : ws_granted(c)
  \/ \E c \in TwoClients : ws_send(c)
  \/ \E c \in TwoClients : ws_close(c)

\* A task that can run does run: the ingestor holding the guard gets the
\* Position Tracker lock, which no other task ever takes, and finishes the
\* event; a broadcaster holding a read guard clones and drops it; the head
\* of the queue takes the lock once the lock is free for it.
LockFairness ==
  /\ WF_vars(ingest_position)
  /\ WF_vars(ingest_write)
  /\ \A c \in TwoClients : WF_vars(ws_send(c))
  /\ \A c \in TwoClients : WF_vars(ws_granted(c))

LockSpec == LockInit /\ [][LockNext]_vars /\ LockFairness

\* ------------------------------------------------------------------------
\* Properties
\* ------------------------------------------------------------------------
Forwarded == u32_int(SENT_COUNT) + u32_int(DROPPED_COUNT)

\* C1: every event the callback offers to the channel, and so every event in
\* the channel, comes from a frame of at least 24 bytes whose source address
\* is neither all-0xFF nor has the least significant bit of byte 0 set.
C1_OnlyFilteredFramesOffered ==
  /\ \A i \in 1..Len(offers) :
       LET f == offers[i].frame IN
       /\ ~f.null
       /\ f.sig_len >= 24
       /\ \E k \in 1..6 : f.addr2[k] # 255
       /\ f.addr2[1] % 2 = 0
  /\ \A j \in 1..Len(chan) : \E i \in 1..Len(offers) : offers[i].event = chan[j]

C1_Witness ==
  /\ Len(chan) >= 1
  /\ Len(offers) >= 2
  /\ offers[1].result = "Ok"

\* C2: after N filtered frames, SENT_COUNT + DROPPED_COUNT is within 1 of
\* floor(N / 50).
C2_ForwardedWithinOneOfQuota ==
  Forwarded - wide_div(frames_passed, 50) \in {-1, 0, 1}

\* N = 1000 with a publisher that has received nothing: the sum is 20.
C2_Witness1000 ==
  /\ frames_passed = u32(1000)
  /\ delivered = <<>>
  /\ Forwarded = 20

\* C3: the channel never holds more than 32 events.
C3_ChannelBounded == Len(chan) <= 32

C3_WitnessFull ==
  /\ Len(chan) = 32
  /\ Len(offers) >= 33
  /\ Len(delivered) >= 1

\* An event dropped on a full channel is nowhere afterwards.
C4_DroppedEventGone ==
  \A i \in 1..Len(offers) :
    offers[i].result = "Full" =>
      /\ \A j \in 1..Len(offers) : j # i => offers[j].event # offers[i].event
      /\ \A j \in 1..Len(chan) : chan[j] # offers[i].event
      /\ \A j \in 1..Len(delivered) : delivered[j] # offers[i].event

C4_DropStep ==
  (/\ Len(chan) = 32
   /\ Len(offers') = Len(offers) + 1)
  => /\ chan' = chan
     /\ u32_int(DROPPED_COUNT') = u32_int(DROPPED_COUNT) + 1
     /\ SENT_COUNT' = SENT_COUNT
     /\ offers'[Len(offers')].result = "Full"

\* C4: a forwarding attempt that meets a channel holding 32 events leaves the
\* channel as it was, adds exactly 1 to DROPPED_COUNT and nothing to
\* SENT_COUNT; and an event dropped this way is never in the channel, never
\* received and never offered a second time.
C4_DropOnFull == [](C4_DroppedEventGone) /\ [][C4_DropStep]_vars

C4_WitnessDropped ==
  /\ Len(offers) >= 1
  /\ offers[Len(offers)].result = "Full"
  /\ Len(chan) = 32
  /\ u32_int(DROPPED_COUNT) = 1

\* C5: every event offered to the channel and every payload handed to the
\* MQTT client names the device by a 32-byte hash (64 hex characters), never
\* by the 6 raw bytes of the source MAC.
C5_EventsCarryHashNotMac ==
  /\ \A i \in 1..Len(offers) :
       /\ Len(offers[i].event.mac) = 32
       /\ offers[i].event.mac # offers[i].frame.addr2
  /\ enqueue_calls > 0 =>
       /\ Len(last_payload.mac_hash) = 64
       /\ \A i \in 1..Len(offers) :
            last_payload.mac_hash # to_hex(offers[i].frame.addr2)

\* Events whose try_send succeeded, in the order of the calls.
Accepted ==
  LET ok == SelectSeq(offers, LAMBDA o : o.result = "Ok")
  IN [i \in 1..Len(ok) |-> ok[i].event]

C7_NeverDisconnected ==
  \A i \in 1..Len(offers) : offers[i].result \in {"Ok", "Full"}

C9_OneEnqueuePerEvent ==
  /\ enqueue_calls = Len(delivered)
  /\ u32_int(SKIP_COUNT) = enqueue_failures
  /\ Len(delivered) > 0 =>
       last_payload.timestamp = delivered[Len(delivered)].timestamp

C9_ReceiveStep ==
  Len(delivered') = Len(delivered) + 1 =>
    /\ enqueue_calls' = enqueue_calls + 1
    /\ chan' = Tail(chan)
    /\ pub_pc' = "run"
    /\ receiver' = "alive"
    /\ enqueue_failures' = enqueue_failures + 1 =>
         u32_int(SKIP_COUNT') = u32_int(SKIP_COUNT) + 1

\* C9: every event received leads to exactly one client.enqueue call, made
\* with that event's payload; a failed call adds 1 to SKIP_COUNT and nothing
\* else, and the loop goes on with the rest of the channel.
C9_NeverRetries == [](C9_OneEnqueuePerEvent) /\ [][C9_ReceiveStep]_vars

C9_WitnessSkipped ==
  /\ enqueue_failures = 1
  /\ Len(delivered) >= 2
  /\ pub_pc = "run"

\* Forwarding attempts the liveness specification can make.
LiveEvents == (MaxLivePackets + SEND_RATE - 1) \div SEND_RATE

C11_ExitStep ==
  /\ (pub_pc = "run" /\ pub_pc' # "run") =>
       /\ chan = <<>>
       /\ main_pc = "tx_dropped"
       /\ pub_pc' = "returned"
       /\ delivered' = delivered
       /\ enqueue_calls' = enqueue_calls
  /\ (enqueue_failures' # enqueue_failures) => (pub_pc' = "run")
  /\ (pub_pc = "returned") =>
       /\ pub_pc' = "returned"
       /\ delivered' = delivered
       /\ enqueue_calls' = enqueue_calls
       /\ chan' = chan

\* C11: MqttPublisher::run ends only when recv_timeout reports Disconnected
\* (empty channel, no sender left) and then returns Ok; neither a timeout nor
\* a failed enqueue ends it, and after the return it never receives again.
C11_RunEndsOnlyOnDisconnect == [][C11_ExitStep]_vars

C11_WitnessReturnedAfterSkip ==
  /\ pub_pc = "returned"
  /\ enqueue_failures = 1
  /\ Len(delivered) = MaxSends
  /\ main_pc = "tx_dropped"

\* A frame the callback turns away, read off the frame itself: no buffer,
\* fewer than 24 bytes, or a source address that is all 0xFF or has the
\* group bit (least significant bit of the first byte) set.
C19_Rejected(frame) ==
  \/ frame.null
  \/ frame.sig_len <= 23
  \/ \A k \in 1..6 : frame.addr2[k] = 255
  \/ frame.addr2[1] \in {n \in 0..255 : n % 2 = 1}

C19_RejectedStep ==
  \A frame \in Frames :
    (C19_Rejected(frame) /\ promiscuous_rx_callback(frame, MaxLivePackets)) =>
      /\ PACKET_COUNT' = PACKET_COUNT
      /\ SENT_COUNT' = SENT_COUNT
      /\ DROPPED_COUNT' = DROPPED_COUNT
      /\ chan' = chan
      /\ offers' = offers

\* C19: a callback invocation with a null buffer, a frame shorter than 24
\* bytes or a broadcast or multicast source leaves PACKET_COUNT, SENT_COUNT,
\* DROPPED_COUNT and the channel as they were and offers no event.
C19_RejectedFrameNoEffect == [][C19_RejectedStep]_vars

\* The driver can hand the callback a broadcast frame, a short frame and no
\* buffer at the moment the next filtered frame would be forwarded, with
\* events in the channel and the counters non-zero.  The invocation changes
\* nothing, so the state after it is this state.
C19_WitnessRejectedAtForwardingSlot ==
  /\ main_pc = "sniffing"
  /\ rate_limit(PACKET_COUNT)
  /\ u32_int(PACKET_COUNT) = 2 * SEND_RATE
  /\ u32_int(SENT_COUNT) = 2
  /\ Len(chan) = 1
  /\ \A frame \in Frames :
       C19_Rejected(frame) => ENABLED promiscuous_rx_callback(frame, MaxLivePackets)
  /\ \E frame \in Frames : C19_Rejected(frame) /\ ~frame.null /\ frame.sig_len = 23
  /\ \E frame \in Frames : C19_Rejected(frame) /\ ~frame.null /\ frame.addr2 = BroadcastMac

\* a <= b for two 32-bit counter values
C20_Le(a, b) == (a.hi < b.hi) \/ (a.hi = b.hi /\ a.lo <= b.lo)

\* A step of the callback on a filtered frame: frames_passed is the number of
\* filtered frames before it, so the frame is the first, 51st, 101st, ...
\* exactly when that number is a multiple of 50.
C20_Step ==
  /\ C20_Le(PACKET_COUNT, PACKET_COUNT')
  /\ (frames_passed' # frames_passed) =>
       ((Len(offers') = Len(offers) + 1) <=> (u32_rem(frames_passed, 50) = 0))

\* C20: PACKET_COUNT never decreases, and a filtered frame is offered to the
\* channel exactly when the number of filtered frames before it is a
\* multiple of 50, so that 49 unforwarded frames lie between two attempts,
\* also across the wrap of the 32-bit counter.
C20_EveryFiftiethFrame == [][C20_Step]_vars

\* The device records between two events: the subscriber holds no guard.
RecordsBetweenEvents == IF sub_pc = "poll" THEN DOMAIN devices ELSE {}

\* C12: between events, the last_seen of every device record is the largest
\* timestamp among the readings in its map.
C12_LastSeenIsMaxTimestamp ==
  \A m \in RecordsBetweenEvents :
    /\ \E s \in DOMAIN devices[m].readings :
         devices[m].readings[s].timestamp = devices[m].last_seen
    /\ \A s \in DOMAIN devices[m].readings :
         devices[m].readings[s].timestamp <= devices[m].last_seen

\* C13: the reading kept for a device and a station carries the largest
\* timestamp of all events received for that device from that station.
C13_LatestTimestampKept ==
  \A m \in DOMAIN devices :
    \A s \in DOMAIN devices[m].readings :
      \A e \in ingested :
        (e.mac_hash = m /\ e.station = s) =>
          e.timestamp <= devices[m].readings[s].timestamp

\* C14 as stated: between events, a record has a position exactly when its
\* readings map has entries of at least 3 stations.
C14_PositionIffThreeStations ==
  \A m \in RecordsBetweenEvents :
    (devices[m].position # None) <=>
      (Cardinality(DOMAIN devices[m].readings) >= 3)

\* the stations of a record whose reading is at most 30 s older than the
\* newest reading of the record
C14_Fresh(record) ==
  {s \in DOMAIN record.readings :
     \A o \in DOMAIN record.readings :
       record.readings[o].timestamp - record.readings[s].timestamp <= 30000000}

\* three of them span a triangle
C14_Triangle(record) ==
  \E a, b, c \in {st \in config : st.id \in C14_Fresh(record)} :
    (b.x - a.x) * (c.y - a.y) # (c.x - a.x) * (b.y - a.y)

\* C14, amended: between events, a record has a position exactly when at
\* least 3 of its readings are within 30 s of its newest reading and the
\* stations of those readings are not on one line; so a record with readings
\* of fewer than 3 stations has no position, and one with readings of 3
\* stations may have none.
C14_PositionIffThreeFreshAnchors ==
  \A m \in RecordsBetweenEvents :
    /\ (devices[m].position # None) <=>
         (Cardinality(C14_Fresh(devices[m])) >= 3 /\ C14_Triangle(devices[m]))
    /\ (Cardinality(DOMAIN devices[m].readings) < 3) =>
         (devices[m].position = None)

C14_WitnessLocated ==
  /\ sub_pc = "poll"
  /\ HashA \in DOMAIN devices
  /\ Cardinality(DOMAIN devices[HashA].readings) = 3
  /\ devices[HashA].position = Some([stations |-> 3, smoothed |-> FALSE])

\* The store has a record for exactly the hashes of the events that went in.
C15_RecordIffEventProcessed ==
  /\ DOMAIN devices = {e.mac_hash : e \in ingested}
  /\ \A m \in DOMAIN devices : devices[m].mac_hash = m

\* No step removes a record or an entry of a readings map.
C15_KeepStep ==
  \A m \in DOMAIN devices :
    /\ m \in DOMAIN devices'
    /\ DOMAIN devices[m].readings \subseteq DOMAIN devices'[m].readings

C16_OneEntryPerStation ==
  \A m \in DOMAIN devices :
    DOMAIN devices[m].readings = {e.station : e \in {x \in ingested : x.mac_hash = m}}

\* three events for one device, two of them of station1: two entries
C16_WitnessRepeatAndSecondStation ==
  /\ sub_pc = "poll"
  /\ {[station |-> e.station, timestamp |-> e.timestamp] : e \in ingested}
       = {[station |-> "station1", timestamp |-> EarlyTime],
          [station |-> "station1", timestamp |-> LateTime],
          [station |-> "station2", timestamp |-> LateTime]}
  /\ \A e \in ingested : e.mac_hash = HashA
  /\ DOMAIN devices[HashA].readings = {"station1", "station2"}

\* C17: a message with a field missing, an rssi outside [-128, 0] or a
\* channel outside [1, 14] changes neither the store nor the tracker:
\* whatever went into the store has all five fields in range, and no reading
\* in the store has an rssi above 0.
C17_OnlyInRangeEventsStored ==
  /\ \A e \in ingested :
       /\ e.rssi \in -128..0
       /\ e.channel \in 1..14
       /\ e.timestamp >= 0
  /\ \A m \in DOMAIN devices :
       \A s \in DOMAIN devices[m].readings :
         devices[m].readings[s].rssi \in -128..0

\* A record as a whole event leaves it: last_seen is the timestamp of one of
\* its readings, and it has a position exactly when its readings give one.
C18_Whole(record) ==
  /\ \E s \in DOMAIN record.readings :
       record.readings[s].timestamp = record.last_seen
  /\ (record.position # None) <=>
       (Cardinality(C14_Fresh(record)) >= 3 /\ C14_Triangle(record))

C18_SnapshotWhole ==
  \A c \in DOMAIN device_list : \A record \in device_list[c] : C18_Whole(record)

\* The step in which the broadcaster clones: the subscriber is between two
\* events and the list is the store of that moment.
C18_SnapshotStep ==
  \A c \in DOMAIN ws_pc :
    (ws_pc[c] = "cloning" /\ ws_pc'[c] # "cloning") =>
      /\ sub_pc = "poll"
      /\ device_list'[c] = {devices[m] : m \in DOMAIN devices}
      /\ devices' = devices

\* C18: every list a broadcaster clones is the store as it was between two
\* events, and none of its records has the reading of an event together
\* with the last_seen or the position from before that event.
C18_SnapshotsConsistent ==
  [](C18_SnapshotWhole) /\ [][C18_SnapshotStep]_vars

\* A list was cloned, and now the subscriber is in the middle of an event,
\* with a record whose position is from before it, while the broadcaster
\* waits for the read lock.
C18_WitnessReaderWaitsMidEvent ==
  /\ sub_pc = "position"
  /\ \E c \in DOMAIN ws_pc :
       /\ ws_pc[c] = "sleep"
       /\ device_list[c] # {}
       /\ device_list[c] # {devices[m] : m \in DOMAIN devices}
  /\ rwlock_read(devices_lock) = "Pending"
  /\ \E m \in DOMAIN devices : ~C18_Whole(devices[m])


\* ------------------------------------------------------------------------
\* The counters the statistics loop reports
\* ------------------------------------------------------------------------
NotPlaced == SelectSeq(offers, LAMBDA o : o.result # "Ok")

\* C21: in every reachable state SENT_COUNT is the number of events the
\* publisher has received so far plus the number now in the channel, and
\* DROPPED_COUNT is the number of forwarding attempts whose event was not
\* placed in the channel.
C21_CountersExact ==
  /\ u32_int(SENT_COUNT) = Len(delivered) + Len(chan)
  /\ u32_int(DROPPED_COUNT) = Len(NotPlaced)

\* The two halves on their own: the counters against the attempts (holds),
\* and the placed events against what the publisher and the channel hold.
C21_CountersMatchAttempts ==
  /\ u32_int(SENT_COUNT) = Len(Accepted)
  /\ u32_int(DROPPED_COUNT) = Len(NotPlaced)
  /\ Len(offers) = Len(Accepted) + Len(NotPlaced)

C21_WitnessPlacedEventsLost ==
  /\ receiver = "dropped"
  /\ u32_int(SENT_COUNT) >= 1
  /\ delivered = <<>>
  /\ chan = <<>>


\* ------------------------------------------------------------------------
\* The producer slot
\* ------------------------------------------------------------------------
\* the only write of the slot: in set_event_sender, from None to Some,
\* while main has not yet registered the callback
C22_SlotStep ==
  /\ EVENT_SENDER'.sender # EVENT_SENDER.sender =>
       /\ main_pc = "locked"
       /\ EVENT_SENDER.sender = "None"
       /\ EVENT_SENDER'.sender = "Some"
       /\ main_pc' = "sender_set"
  /\ (frames_passed' # frames_passed /\ rate_limit(PACKET_COUNT)) =>
       /\ try_lock(EVENT_SENDER) = "Ok"
       /\ EVENT_SENDER.sender = "Some"
       /\ Len(offers') = Len(offers) + 1

C22_SlotFilled ==
  /\ main_pc \in {"sender_set", "spawned", "sniffing", "exited"} =>
       EVENT_SENDER = [locked |-> FALSE, sender |-> "Some"]
  /\ main_pc \in {"start", "channel", "locked"} =>
       EVENT_SENDER.sender = "None"

\* C22: EVENT_SENDER is written once, by set_event_sender before the callback
\* is registered, and never reassigned or cleared; every callback invocation
\* that reaches the forwarding step finds the slot unlocked with a sender in
\* it and makes its try_send.
C22_SenderSetOnceBeforeSniffing == []C22_SlotFilled /\ [][C22_SlotStep]_vars

C22_WitnessForwardedThroughSlot ==
  /\ main_pc = "sniffing"
  /\ EVENT_SENDER.sender = "Some"
  /\ Len(offers) >= 2
  /\ u32_int(PACKET_COUNT) >= 51


\* ------------------------------------------------------------------------
\* The Device Store lock during the position computation
\* ------------------------------------------------------------------------
\* C24: while the ingestor computes the position of an event's device it
\* does not hold the Device Store write lock, so a broadcaster's read is
\* granted at that moment.
C24_NoWriteLockDuringPosition ==
  sub_pc = "position" =>
    /\ ~devices_lock.writer
    /\ rwlock_read(devices_lock) = "Ok"

\* What the code does: the write guard taken for observe is still held when
\* update_position runs, and it is released only after the position is stored.
C24_WriteLockHeldThroughPosition ==
  /\ sub_pc = "position" => (devices_lock.writer /\ devices_lock.readers = 0)
  /\ sub_pc = "poll" => ~devices_lock.writer

C24_WitnessReaderBlockedDuringPosition ==
  /\ sub_pc = "position"
  /\ devices_lock.writer
  /\ \E c \in DOMAIN ws_pc : ws_pc[c] = "sleep" /\ ~ENABLED ws_read(c)


\* ------------------------------------------------------------------------
\* The bytes handed to the MQTT client
\* ------------------------------------------------------------------------
\* the JSON object of a formatted payload, keys in the order of the claim
C23_JsonText(p) ==
  "{" \o "\"mac_hash\":\"" \o push_str(p.mac_hash) \o "\""
      \o ",\"rssi\":" \o ToString(p.rssi)
      \o ",\"channel\":" \o ToString(p.channel)
      \o ",\"timestamp\":" \o ToString(p.timestamp)
      \o ",\"station\":\"" \o p.station \o "\""
      \o "}"

\* C23: for every event and every station id the bytes publish_event hands
\* to the MQTT client are the complete JSON object with the keys mac_hash,
\* rssi, channel, timestamp, station in that order; the 200-byte buffer never
\* cuts the payload short.
C23_PayloadNeverCut ==
  enqueue_calls > 0 => last_bytes = C23_JsonText(last_payload)

\* What the code does: the bytes are the first 200 bytes of the object, and
\* so the whole object exactly when it is no longer than the buffer.
C23_PayloadCutAtBuffer ==
  enqueue_calls > 0 =>
    LET text == C23_JsonText(last_payload) IN
    /\ last_payload.station = station_id
    /\ Len(last_bytes) <= PAYLOAD_BUF_LEN
    /\ last_bytes = SubSeq(text, 1, Len(last_bytes))
    /\ (last_bytes = text) <=> (Len(text) <= PAYLOAD_BUF_LEN)

C23_WitnessPayloadCut ==
  /\ enqueue_calls = 1
  /\ Len(station_id) = 60
  /\ Len(last_bytes) = PAYLOAD_BUF_LEN
  /\ last_bytes # C23_JsonText(last_payload)
  /\ Len(C23_JsonText(last_payload)) = PAYLOAD_BUF_LEN + 1

C23_WitnessPayloadFillsBuffer ==
  /\ enqueue_calls = 1
  /\ Len(station_id) = 59
  /\ Len(last_bytes) = PAYLOAD_BUF_LEN
  /\ last_bytes = C23_JsonText(last_payload)


\* ------------------------------------------------------------------------
\* Progress of the lock requests
\* ------------------------------------------------------------------------
\* the guards held are those of the tasks between grant and release
C25_GuardsAccounted ==
  /\ devices_lock.writer <=> (sub_pc = "position")
  /\ devices_lock.readers = Cardinality({c \in DOMAIN ws_pc : ws_pc[c] = "cloning"})
  /\ ~(devices_lock.writer /\ devices_lock.readers > 0)

\* a broadcaster's read, once requested, is granted (or the broadcaster is
\* aborted while it waits), and once granted it is released
C25_ReadServed(c) ==
  /\ [](ws_pc[c] = "reading" => <>(ws_pc[c] \in {"cloning", "closed"}))
  /\ [](ws_pc[c] = "cloning" => <>(ws_pc[c] # "cloning" /\ devices_lock.readers < 2))

\* the ingestor's write, once requested, is granted, and once granted it is
\* released with the event finished
C25_WriteServed ==
  /\ [](sub_pc = "write" => <>(sub_pc = "position" /\ devices_lock.writer))
  /\ [](sub_pc = "position" => <>(sub_pc = "poll" /\ ~devices_lock.writer))

\* C25: the server's locking cannot deadlock.  With a fair lock, every write
\* the ingestor requests and every read a broadcaster requests is granted
\* and then released, whatever the other broadcaster does; a broadcaster
\* aborted while it waits withdraws its request.
C25_NoDeadlock ==
  /\ []C25_GuardsAccounted
  /\ C25_WriteServed
  /\ \A c \in TwoClients : C25_ReadServed(c)

\* The ingestor waits for the write lock behind both broadcasters, after an
\* earlier event went through and a broadcaster has sent it.
C25_WitnessWriterWaitsBehindReaders ==
  /\ sub_pc = "write"
  /\ devices_lock.readers = 2
  /\ DOMAIN devices # {}
  /\ \E c \in DOMAIN ws_pc : device_list[c] # {}

\* A broadcaster waits for the read lock while the ingestor is in an event.
C25_WitnessReaderWaitsBehindWriter ==
  /\ sub_pc = "position"
  /\ devices_lock.writer
  /\ \E c \in DOMAIN ws_pc : ws_pc[c] = "reading"
  /\ \E c \in DOMAIN ws_pc : device_list[c] # {}

============================================================================
